---- MODULE Spec2Model ----
(***************************************************************************)
(* Model of src/nni_manager/common/utils.ts: the asynchronous utilities    *)
(* of the trial-process launch subsystem (mkDirP, uniqueString,            *)
(* getMsgDispatcherCommand, countFilesRecursively, isAlive, killPid,       *)
(* runScript).  Node runs callbacks one at a time, so every action below   *)
(* is one callback (or one synchronous call) run to completion, together   *)
(* with the promise reactions (microtasks) it triggers.                    *)
(*                                                                         *)
(* A behaviour exercises one utility: `running` names it and is fixed by   *)
(* Init; the variables of the other utilities keep their initial values.   *)
(***************************************************************************)
EXTENDS Integers, Sequences, FiniteSets, TLC

VARIABLES
    platform,      \* process.platform: "win32" or "posix"
    running,       \* the utility this behaviour exercises
    procs,         \* the operating system's set of live process ids
    isAliveCall,   \* one call of isAlive
    killPidCall,   \* one call of killPid
    cf,            \* one call of countFilesRecursively
    rs,            \* one call of runScript, and the child it leads to
    files,         \* the paths that exist under the trial working directory
    disp,          \* one call of getMsgDispatcherCommand
    us,            \* one call of uniqueString
    mk,            \* the frames of the concurrent mkDirP calls
    dirs           \* the directories that exist (mkDirP's file system)

vars == <<platform, running, procs, isAliveCall, killPidCall, cf, rs, files,
          disp, us, mk, dirs>>

Platforms == {"win32", "posix"}

Utilities == {"proc", "count", "script", "dispatcher", "unique", "mkdirp"}

Undefined == "undefined"

(***************************************************************************)
(* Process supervisor: isAlive and killPid.                                *)
(***************************************************************************)

Pids == {1, 2}

IsAliveIdle ==
    [pc |-> "idle", pid |-> 0, existed |-> FALSE, probed |-> "none",
     alive |-> FALSE, promise |-> "none", value |-> FALSE]

KillPidIdle ==
    [pc |-> "idle", pid |-> 0, execResult |-> "none",
     deferred |-> "none", promise |-> "none"]

\* The output of `tasklist /FI "PID eq <pid>"`: a table row for a task that
\* matches, the line "INFO: No tasks are running ..." for none.
Tasklist(pid) ==
    IF pid \in procs THEN <<"Image Name", "PID", "row">>
                     ELSE <<"INFO:", "No tasks", "are running">>

\* str.includes("No tasks")
Includes(str, marker) == \E i \in 1..Len(str) : str[i] = marker

\* isAlive up to its first suspension.  On win32 the probe is execSync, so
\* the whole function runs here; elsewhere it suspends on cpp.exec.
IsAliveStart(pid) ==
    /\ running = "proc"
    /\ isAliveCall.pc = "idle"
    /\ IF platform = "win32"
       THEN LET str   == Tasklist(pid)
                alive == ~Includes(str, "No tasks")
            IN  isAliveCall' =
                    [pc |-> "done", pid |-> pid, existed |-> pid \in procs,
                     probed |-> IF alive THEN "present" ELSE "absent",
                     alive |-> alive, promise |-> "resolved", value |-> alive]
       ELSE isAliveCall' =
                [isAliveCall EXCEPT !.pc = "awaitExec", !.pid = pid,
                                    !.promise = "pending"]
    /\ UNCHANGED <<platform, running, procs, killPidCall, cf, rs, files,
                   disp, us, mk, dirs>>

\* A variant of IsAliveExecSettle without the try/catch: a failed probe
\* rejects the returned promise.
IsAliveExecSettleNoCatch ==
    /\ running = "proc"
    /\ isAliveCall.pc = "awaitExec"
    /\ \E ok \in (IF isAliveCall.pid \in procs THEN {TRUE, FALSE} ELSE {FALSE}) :
          isAliveCall' =
              [isAliveCall EXCEPT
                  !.pc = "done",
                  !.existed = isAliveCall.pid \in procs,
                  !.probed = IF ok THEN "present" ELSE "absent",
                  !.alive = ok,
                  !.promise = IF ok THEN "resolved" ELSE "rejected",
                  !.value = ok]
    /\ UNCHANGED <<platform, running, procs, killPidCall, cf, rs, files,
                   disp, us, mk, dirs>>

\* `kill -0 <pid>` settles.  It exits 0 only for an existing process (and
\* fails for one the caller may not signal); a failure is caught and ignored.
IsAliveExecSettle ==
    /\ running = "proc"
    /\ isAliveCall.pc = "awaitExec"
    /\ \E ok \in (IF isAliveCall.pid \in procs THEN {TRUE, FALSE} ELSE {FALSE}) :
          LET alive == IF ok THEN TRUE ELSE isAliveCall.alive
          IN  isAliveCall' =
                  [isAliveCall EXCEPT
                      !.pc = "done",
                      !.existed = isAliveCall.pid \in procs,
                      !.probed = IF ok THEN "present" ELSE "absent",
                      !.alive = alive,
                      !.promise = "resolved",
                      !.value = alive]
    /\ UNCHANGED <<platform, running, procs, killPidCall, cf, rs, files,
                   disp, us, mk, dirs>>

\* killPid up to its suspension on cpp.exec(`kill <pid>`).
KillPidStart(pid) ==
    /\ running = "proc"
    /\ killPidCall.pc = "idle"
    /\ killPidCall' =
           [killPidCall EXCEPT !.pc = "awaitExec", !.pid = pid,
                               !.deferred = "pending", !.promise = "pending"]
    /\ UNCHANGED <<platform, running, procs, isAliveCall, cf, rs, files,
                   disp, us, mk, dirs>>

\* `kill <pid>` settles: it succeeds only for an existing process, which
\* then terminates; a failure is caught.  The function then returns
\* deferred.promise, which nothing in the function ever resolves, so the
\* promise of the async function follows a promise that stays pending.
KillPidExecSettle ==
    /\ running = "proc"
    /\ killPidCall.pc = "awaitExec"
    /\ \E ok \in (IF killPidCall.pid \in procs THEN {TRUE, FALSE} ELSE {FALSE}) :
          /\ procs' = IF ok THEN procs \ {killPidCall.pid} ELSE procs
          /\ killPidCall' =
                 [killPidCall EXCEPT
                     !.pc = "returned",
                     !.execResult = IF ok THEN "ok" ELSE "failed",
                     !.promise = killPidCall.deferred]
    /\ UNCHANGED <<platform, running, isAliveCall, cf, rs, files,
                   disp, us, mk, dirs>>

\* A live process ends by itself.
ProcExit(pid) ==
    /\ running = "proc"
    /\ pid \in procs
    /\ procs' = procs \ {pid}
    /\ UNCHANGED <<platform, running, isAliveCall, killPidCall, cf, rs, files,
                   disp, us, mk, dirs>>

(***************************************************************************)
(* Timeout-bounded prober: countFilesRecursively.                          *)
(***************************************************************************)

MaxFiles == 12

NaN == [nan |-> TRUE, val |-> 0]

Number(v) == [nan |-> FALSE, val |-> v]

Digits == <<"0", "1", "2", "3", "4", "5", "6", "7", "8", "9">>

IsDigit(c) == \E d \in 1..10 : Digits[d] = c

DigitVal(c) == (CHOOSE d \in 1..10 : Digits[d] = c) - 1

\* The decimal numeral of n, as `wc -l` prints it.
RECURSIVE ToDecimal(_)
ToDecimal(n) ==
    IF n < 10 THEN <<Digits[n + 1]>>
              ELSE Append(ToDecimal(n \div 10), Digits[(n % 10) + 1])

\* The stdout of `find <directory> -type f | wc -l` for n regular files.
WcOutput(n) == ToDecimal(n) \o <<"\n">>

\* parseInt: the value of the longest prefix of decimal digits, NaN when
\* the string starts with no digit.
RECURSIVE ParseDigits(_, _, _)
ParseDigits(str, i, acc) ==
    IF i > Len(str) \/ ~IsDigit(str[i]) THEN acc
    ELSE ParseDigits(str, i + 1, acc * 10 + DigitVal(str[i]))

ParseInt(str) ==
    IF Len(str) = 0 \/ ~IsDigit(str[1]) THEN NaN
    ELSE Number(ParseDigits(str, 1, 0))

\* JavaScript truthiness of a string and of a number.
TruthyString(str) == Len(str) > 0

TruthyNumber(x) == ~x.nan /\ x.val # 0

\* The `then` callback's computation of fileCount from result.stdout.
FileCountOf(stdout) ==
    IF TruthyString(stdout) /\ TruthyNumber(ParseInt(stdout))
    THEN ParseInt(stdout).val
    ELSE -1

CountIdle ==
    [pc |-> "idle", exists |-> FALSE, nFiles |-> 0, outcome |-> "none",
     timer |-> "none", cmd |-> "none", deferred |-> "none", fileCount |-> -1,
     delayTimeout |-> "none", result |-> "none", value |-> -1,
     error |-> "none", unhandled |-> FALSE]

CmdOutcomes == {"ok", "fail", "hang"}

\* clearTimeout(timeoutId): cancels a timer that has not fired yet.
ClearTimeout(timer) == IF timer = "pending" THEN "cleared" ELSE timer

\* The synchronous part of countFilesRecursively: the existence check, the
\* deadline timer, the external command, the race.  `n` is the number of
\* regular files the command will find and `outcome` how it will end.
CountStart(exists, n, outcome) ==
    /\ running = "count"
    /\ cf.pc = "idle"
    /\ IF ~exists
       THEN cf' = [cf EXCEPT !.pc = "thrown", !.exists = FALSE]
       ELSE cf' = [cf EXCEPT !.pc = "racing", !.exists = TRUE, !.nFiles = n,
                             !.outcome = outcome, !.timer = "pending",
                             !.cmd = "running", !.deferred = "pending",
                             !.delayTimeout = "pending", !.result = "pending"]
    /\ UNCHANGED <<platform, running, procs, isAliveCall, killPidCall, rs,
                   files, disp, us, mk, dirs>>

\* The command exits successfully: the `then` callback resolves deferred;
\* if the race is still open it resolves with fileCount and the `finally`
\* callback clears the timer.
CountExecOk ==
    /\ running = "count"
    /\ cf.cmd = "running"
    /\ cf.outcome = "ok"
    /\ LET fileCount == FileCountOf(WcOutput(cf.nFiles))
           wins      == cf.result = "pending"
       IN  cf' = [cf EXCEPT
                     !.cmd = "exited",
                     !.fileCount = fileCount,
                     !.deferred = "resolved",
                     !.result = IF wins THEN "resolved" ELSE cf.result,
                     !.value = IF wins THEN fileCount ELSE cf.value,
                     !.timer = IF wins THEN ClearTimeout(cf.timer) ELSE cf.timer,
                     !.pc = "settled"]
    /\ UNCHANGED <<platform, running, procs, isAliveCall, killPidCall, rs,
                   files, disp, us, mk, dirs>>

\* The command fails: cpp.exec rejects, the `then` has no rejection handler,
\* so deferred stays pending and the rejection is unhandled.
CountExecFail ==
    /\ running = "count"
    /\ cf.cmd = "running"
    /\ cf.outcome = "fail"
    /\ cf' = [cf EXCEPT !.cmd = "failed", !.unhandled = TRUE]
    /\ UNCHANGED <<platform, running, procs, isAliveCall, killPidCall, rs,
                   files, disp, us, mk, dirs>>

\* A variant of CountTimerFire whose callback does not reject.
CountTimerFireNoReject ==
    /\ running = "count"
    /\ cf.timer = "pending"
    /\ cf' = [cf EXCEPT !.timer = "fired"]
    /\ UNCHANGED <<platform, running, procs, isAliveCall, killPidCall, rs,
                   files, disp, us, mk, dirs>>

\* The deadline timer fires after 5000 ms: delayTimeout rejects, the race
\* rejects with the Timeout error, and the `finally` callback calls
\* clearTimeout on the timer that has already fired.  Nothing stops the
\* external command.
CountTimerFire ==
    /\ running = "count"
    /\ cf.timer = "pending"
    /\ LET wins == cf.result = "pending"
       IN  cf' = [cf EXCEPT
                     !.timer = ClearTimeout("fired"),
                     !.delayTimeout = "rejected",
                     !.result = IF wins THEN "rejected" ELSE cf.result,
                     !.error = IF wins THEN "Timeout" ELSE cf.error,
                     !.pc = "settled"]
    /\ UNCHANGED <<platform, running, procs, isAliveCall, killPidCall, rs,
                   files, disp, us, mk, dirs>>

(***************************************************************************)
(* Script materializer: runScript, and the child that runs the script.     *)
(***************************************************************************)

MaxExit == 3

MaxSeconds == 2

ScriptMode == 511

\* The owner-execute bit (0o100) of a file mode.
OwnerExecutable(mode) == (mode \div 64) % 2 = 1

NoFiles ==
    [wd |-> FALSE, nni |-> FALSE, metrics |-> FALSE, script |-> "none",
     scriptMode |-> 0, lines |-> <<>>, state |-> <<>>, stateWrites |-> 0]

RunScriptIdle ==
    [pc |-> "idle", variables |-> <<>>, done |-> <<>>, wrote |-> FALSE,
     failed |-> "none", promise |-> "none", value |-> <<>>, child |-> "none",
     exitStatus |-> 0, exitSecond |-> 0]

VariableLists == {<<>>, <<[key |-> "NNI_TRIAL_JOB_ID", value |-> "t1"]>>}

\* runScriptLines.  One record per line of the script; `variables` gives
\* one line each.
RunScriptLines(plat, variables) ==
    IF plat = "win32"
    THEN <<[op |-> "cd"]>>
         \o [i \in 1..Len(variables) |->
                [op |-> "setenv", key |-> variables[i].key,
                 value |-> variables[i].value]]
         \o <<[op |-> "invoke", stderr |-> "wd/stderr"],
              [op |-> "assignNowSeconds"],
              [op |-> "appendZeros"],
              [op |-> "assignState", val |-> 0],
              [op |-> "ifLastOk", then |-> 0, else |-> 2],
              [op |-> "writeState", to |-> "wd/.nni/state"]>>
    ELSE <<[op |-> "shebang"], [op |-> "cd"]>>
         \o [i \in 1..Len(variables) |->
                [op |-> "export", key |-> variables[i].key,
                 value |-> variables[i].value]]
         \o <<[op |-> "eval", stderr |-> "wd/stderr"],
              [op |-> "echoStatusDate", to |-> "wd/.nni/state"]>>

\* The synchronous part of runScript: the script lines are built and the
\* first scaffolding command is issued.
RunScriptStart(variables) ==
    /\ running = "script"
    /\ rs.pc = "idle"
    /\ rs' = [rs EXCEPT !.pc = "mkdirWd", !.variables = variables,
                        !.promise = "pending"]
    /\ UNCHANGED <<platform, running, procs, isAliveCall, killPidCall, cf,
                   files, disp, us, mk, dirs>>

\* An awaited step that failed: the async function throws, its promise
\* rejects, nothing after the step runs.
Rejected(step) ==
    [rs EXCEPT !.pc = "rejected", !.failed = step, !.promise = "rejected"]

Completed(step, next) == [rs EXCEPT !.pc = next, !.done = Append(rs.done, step)]

\* `mkdir <wd>` (win32: fails when the directory exists) or `mkdir -p <wd>`
\* settles; `ok` is whether the operating system lets it succeed.
RunScriptMkdirWd(ok) ==
    /\ running = "script"
    /\ rs.pc = "mkdirWd"
    /\ IF ok /\ ~(platform = "win32" /\ files.wd)
       THEN /\ files' = [files EXCEPT !.wd = TRUE]
            /\ rs' = Completed("mkdirWd", "mkdirNni")
       ELSE /\ rs' = Rejected("mkdirWd")
            /\ UNCHANGED files
    /\ UNCHANGED <<platform, running, procs, isAliveCall, killPidCall, cf,
                   disp, us, mk, dirs>>

\* `mkdir <wd>/.nni` or `mkdir -p <wd>/.nni` settles.
RunScriptMkdirNni(ok) ==
    /\ running = "script"
    /\ rs.pc = "mkdirNni"
    /\ IF ok /\ ~(platform = "win32" /\ files.nni)
       THEN /\ files' = [files EXCEPT !.wd = TRUE, !.nni = TRUE]
            /\ rs' = Completed("mkdirNni", "touchMetrics")
       ELSE /\ rs' = Rejected("mkdirNni")
            /\ UNCHANGED files
    /\ UNCHANGED <<platform, running, procs, isAliveCall, killPidCall, cf,
                   disp, us, mk, dirs>>

\* A variant of RunScriptTouchMetrics that goes on to the script when the
\* command failed.
RunScriptTouchMetricsUnchecked(ok) ==
    /\ running = "script"
    /\ rs.pc = "touchMetrics"
    /\ IF ok /\ files.nni
       THEN /\ files' = [files EXCEPT !.metrics = TRUE]
            /\ rs' = Completed("touchMetrics", "writeFile")
       ELSE /\ rs' = [rs EXCEPT !.pc = "writeFile"]
            /\ UNCHANGED files
    /\ UNCHANGED <<platform, running, procs, isAliveCall, killPidCall, cf,
                   disp, us, mk, dirs>>

\* `copy NUL <wd>/.nni/metrics` or `touch <wd>/.nni/metrics` settles; it
\* needs the .nni directory.
RunScriptTouchMetrics(ok) ==
    /\ running = "script"
    /\ rs.pc = "touchMetrics"
    /\ IF ok /\ files.nni
       THEN /\ files' = [files EXCEPT !.metrics = TRUE]
            /\ rs' = Completed("touchMetrics", "writeFile")
       ELSE /\ rs' = Rejected("touchMetrics")
            /\ UNCHANGED files
    /\ UNCHANGED <<platform, running, procs, isAliveCall, killPidCall, cf,
                   disp, us, mk, dirs>>

\* fs.promises.writeFile(run.ps1 | run.sh, lines, {mode: 0o777}) settles; on
\* success cmdParameter is filled and deferred resolves with it.
RunScriptWriteFile(ok) ==
    /\ running = "script"
    /\ rs.pc = "writeFile"
    /\ IF ok /\ files.wd
       THEN /\ files' = [files EXCEPT
                            !.script = IF platform = "win32" THEN "run.ps1"
                                                              ELSE "run.sh",
                            !.scriptMode = ScriptMode,
                            !.lines = RunScriptLines(platform, rs.variables)]
            /\ rs' = [rs EXCEPT
                         !.pc = "resolved",
                         !.done = Append(rs.done, "writeFile"),
                         !.wrote = TRUE,
                         !.promise = "resolved",
                         !.value = IF platform = "win32"
                                   THEN <<"powershell", "run.ps1">>
                                   ELSE <<"bash", "run.sh">>]
       ELSE /\ rs' = Rejected("writeFile")
            /\ UNCHANGED files
    /\ UNCHANGED <<platform, running, procs, isAliveCall, killPidCall, cf,
                   disp, us, mk, dirs>>

\* The interpreter's variables while the script runs: `$?` (its number for
\* bash, its truth value for powershell), $state, $NOW_DATE, and what was
\* written to the state file.
ShellInit ==
    [lastStatus |-> 0, lastOk |-> TRUE, state |-> 0, nowDate |-> 0,
     out |-> <<>>, writes |-> 0]

\* One line of the script, run by its interpreter.  `exit` is the status
\* the user command ends with, `now` the epoch seconds at that time.
RunLine(line, sh, exit, now) ==
    CASE line.op = "shebang" -> sh
      [] line.op \in {"cd", "export", "setenv"} ->
            [sh EXCEPT !.lastStatus = 0, !.lastOk = TRUE]
      [] line.op = "eval" ->
            [sh EXCEPT !.lastStatus = exit, !.lastOk = (exit = 0)]
      [] line.op = "echoStatusDate" ->
            [sh EXCEPT !.out = <<sh.lastStatus, now * 1000>>,
                       !.writes = sh.writes + 1]
      [] line.op = "invoke" ->
            [sh EXCEPT !.lastStatus = exit, !.lastOk = (exit = 0)]
      [] line.op = "assignNowSeconds" ->
            [sh EXCEPT !.nowDate = now, !.lastOk = TRUE]
      [] line.op = "appendZeros" ->
            [sh EXCEPT !.nowDate = sh.nowDate * 1000, !.lastOk = TRUE]
      [] line.op = "assignState" ->
            [sh EXCEPT !.state = line.val, !.lastOk = TRUE]
      [] line.op = "ifLastOk" ->
            [sh EXCEPT !.state = IF sh.lastOk THEN line.then ELSE line.else]
      [] line.op = "writeState" ->
            [sh EXCEPT !.out = <<sh.state, sh.nowDate>>,
                       !.writes = sh.writes + 1]

RECURSIVE RunLines(_, _, _, _, _)
RunLines(lines, i, sh, exit, now) ==
    IF i > Len(lines) THEN sh
    ELSE RunLines(lines, i + 1, RunLine(lines[i], sh, exit, now), exit, now)

\* The caller spawns the command runScript resolved with; the script runs
\* the user command, which ends with status `exit` at second `now`.
ChildRun(exit, now) ==
    /\ running = "script"
    /\ rs.promise = "resolved"
    /\ rs.child = "none"
    /\ LET sh == RunLines(files.lines, 1, ShellInit, exit, now)
       IN  files' = [files EXCEPT !.state = sh.out,
                                  !.stateWrites = files.stateWrites + sh.writes]
    /\ rs' = [rs EXCEPT !.child = "exited", !.exitStatus = exit,
                        !.exitSecond = now]
    /\ UNCHANGED <<platform, running, procs, isAliveCall, killPidCall, cf,
                   disp, us, mk, dirs>>

(***************************************************************************)
(* Command line builder: getMsgDispatcherCommand.  A string is the         *)
(* sequence of its characters, the command the sequence of its             *)
(* space-separated tokens.                                                 *)
(***************************************************************************)

None == [defined |-> FALSE, v |-> <<>>]

Some(x) == [defined |-> TRUE, v |-> x]

\* An argument that was not passed (undefined).
NoSpec ==
    [defined |-> FALSE, className |-> None, classArgs |-> None,
     codeDir |-> None, classFileName |-> None]

SpecOf(className, classArgs, codeDir, classFileName) ==
    [defined |-> TRUE, className |-> className, classArgs |-> classArgs,
     codeDir |-> codeDir, classFileName |-> classFileName]

\* classArgs objects: sequences of key/value pairs.
ArgsMaximize == <<[key |-> "optimize_mode", value |-> "maximize"]>>

\* The tuner, assessor and advisor descriptions the calls draw from: a
\* builtin one, a customized one, one whose optional strings have length 0
\* and 1, and one without className.
BuiltinSpec == SpecOf(Some(<<"E", "T">>), Some(ArgsMaximize), None, None)

CustomSpec ==
    SpecOf(Some(<<"B", "T">>), None, Some(<<"/", "t">>), Some(<<"t", ".", "p", "y">>))

ShortSpec == SpecOf(Some(<<"S">>), Some(<<>>), Some(<<"d">>), Some(<<>>))

NamelessSpec == SpecOf(None, None, None, None)

TunerInputs == {NoSpec, BuiltinSpec, CustomSpec, ShortSpec}

AssessorInputs == {NoSpec, BuiltinSpec, CustomSpec, NamelessSpec}

AdvisorInputs == {NoSpec, BuiltinSpec, CustomSpec, ShortSpec}

Quote == "\""

Backslash == "\\"

\* JSON.stringify of a string: quoted, with quotes and backslashes escaped.
RECURSIVE JsonEscape(_)
JsonEscape(str) ==
    IF str = <<>> THEN <<>>
    ELSE (IF Head(str) \in {Quote, Backslash} THEN <<Backslash, Head(str)>>
                                              ELSE <<Head(str)>>)
         \o JsonEscape(Tail(str))

JsonString(str) == <<Quote>> \o JsonEscape(str) \o <<Quote>>

\* JSON.stringify of an object of string values.
RECURSIVE JsonMembers(_)
JsonMembers(args) ==
    IF args = <<>> THEN <<>>
    ELSE JsonString(<<Head(args).key>>) \o <<":">>
         \o JsonString(<<Head(args).value>>)
         \o (IF Tail(args) = <<>> THEN <<>> ELSE <<",">>)
         \o JsonMembers(Tail(args))

JsonObject(args) == <<"{">> \o JsonMembers(args) \o <<"}">>

CrossPlatformStringify(args) ==
    IF platform = "win32" THEN JsonObject(args)
                          ELSE JsonString(JsonObject(args))

Flag(name) == <<name>>

\* The ` --<group>_class_name ...` part one description adds to the command.
GroupTokens(group, spec) ==
    <<Flag("--" \o group \o "_class_name"), spec.className.v>>
    \o (IF spec.classArgs.defined
        THEN <<Flag("--" \o group \o "_args"), CrossPlatformStringify(spec.classArgs.v)>>
        ELSE <<>>)
    \o (IF spec.codeDir.defined /\ Len(spec.codeDir.v) > 1
        THEN <<Flag("--" \o group \o "_directory"), spec.codeDir.v>>
        ELSE <<>>)
    \o (IF spec.classFileName.defined /\ Len(spec.classFileName.v) > 1
        THEN <<Flag("--" \o group \o "_class_filename"), spec.classFileName.v>>
        ELSE <<>>)

\* A variant of SpecifiesBoth that overlooks the assessor.
SpecifiesBothTunerOnly(tuner, assessor, advisor) ==
    tuner.defined /\ advisor.defined

\* (tuner || assessor) && advisor
SpecifiesBoth(tuner, assessor, advisor) ==
    (tuner.defined \/ assessor.defined) /\ advisor.defined

\* !tuner && !advisor
SpecifiesNeither(tuner, advisor) == ~tuner.defined /\ ~advisor.defined

GetMsgDispatcherCommand(tuner, assessor, advisor, multiPhase, multiThread) ==
    IF SpecifiesBoth(tuner, assessor, advisor)
    THEN [error |-> "specify both tuner/assessor and advisor is not allowed",
          command |-> <<>>]
    ELSE IF SpecifiesNeither(tuner, advisor)
    THEN [error |-> "specify neither tuner nor advisor is not allowed",
          command |-> <<>>]
    ELSE [error |-> "none",
          command |->
              <<Flag("python3"), Flag("-m"), Flag("nni")>>
              \o (IF multiPhase THEN <<Flag("--multi_phase")>> ELSE <<>>)
              \o (IF multiThread THEN <<Flag("--multi_thread")>> ELSE <<>>)
              \o (IF advisor.defined
                  THEN GroupTokens("advisor", advisor)
                  ELSE GroupTokens("tuner", tuner)
                       \o (IF assessor.defined /\ assessor.className.defined
                           THEN GroupTokens("assessor", assessor)
                           ELSE <<>>))]

DispatcherIdle ==
    [pc |-> "idle", tuner |-> NoSpec, assessor |-> NoSpec, advisor |-> NoSpec,
     multiPhase |-> FALSE, multiThread |-> FALSE, error |-> "none",
     command |-> <<>>]

DispatcherCall(tuner, assessor, advisor, multiPhase, multiThread) ==
    /\ running = "dispatcher"
    /\ disp.pc = "idle"
    /\ LET r == GetMsgDispatcherCommand(tuner, assessor, advisor,
                                        multiPhase, multiThread)
       IN  disp' = [pc |-> IF r.error = "none" THEN "returned" ELSE "thrown",
                    tuner |-> tuner, assessor |-> assessor,
                    advisor |-> advisor, multiPhase |-> multiPhase,
                    multiThread |-> multiThread, error |-> r.error,
                    command |-> r.command]
    /\ UNCHANGED <<platform, running, procs, isAliveCall, killPidCall, cf, rs,
                   files, us, mk, dirs>>

(***************************************************************************)
(* Identifier generator: charMap and uniqueString.                         *)
(***************************************************************************)

MaxLen == 3

\* The values a random byte takes in the calls explored.
ByteValues == {0, 25, 26, 51, 52, 61, 62, 255}

\* A variant of CharMap that starts the digits one code point early.
CharMapEarlyDigits(index) ==
    IF index < 26 THEN index + 97
    ELSE IF index < 52 THEN index - 26 + 65
    ELSE index - 52 + 47

CharMap(index) ==
    IF index < 26 THEN index + 97
    ELSE IF index < 52 THEN index - 26 + 65
    ELSE index - 52 + 48

RECURSIVE Power(_, _)
Power(b, e) == IF e = 0 THEN 1 ELSE b * Power(b, e - 1)

\* Math.ceil((Math.log2(52) + Math.log2(62) * (len - 1)) / 8): the least
\* number of bytes k with 256^k >= 52 * 62^(len - 1).
RECURSIVE LeastBytes(_, _)
LeastBytes(n, k) == IF Power(256, k) >= n THEN k ELSE LeastBytes(n, k + 1)

ByteLength(len) == LeastBytes(52 * Power(62, len - 1), 0)

\* randomBytes(byteLength).reduce((a, b) => a * 256 + b, 0)
RECURSIVE Reduce(_, _, _)
Reduce(bytes, i, a) ==
    IF i > Len(bytes) THEN a ELSE Reduce(bytes, i + 1, a * 256 + bytes[i])

\* The loop that pushes charMap(num % 62) for i = 1 .. len - 1.
RECURSIVE RestCodes(_, _, _)
RestCodes(num, i, len) ==
    IF i >= len THEN <<>>
    ELSE <<CharMap(num % 62)>> \o RestCodes(num \div 62, i + 1, len)

\* The char codes of uniqueString(len) when randomBytes returns `bytes`.
UniqueCodes(len, bytes) ==
    LET num == Reduce(bytes, 1, 0)
    IN  <<CharMap(num % 52)>> \o RestCodes(num \div 52, 1, len)

UniqueIdle ==
    [pc |-> "idle", len |-> 0, drew |-> FALSE, bytes |-> <<>>, codes |-> <<>>]

UniqueString(len) ==
    /\ running = "unique"
    /\ us.pc = "idle"
    /\ IF len = 0
       THEN us' = [us EXCEPT !.pc = "returned"]
       ELSE \E bytes \in [1..ByteLength(len) -> ByteValues] :
               us' = [pc |-> "returned", len |-> len, drew |-> TRUE,
                      bytes |-> bytes, codes |-> UniqueCodes(len, bytes)]
    /\ UNCHANGED <<platform, running, procs, isAliveCall, killPidCall, cf, rs,
                   files, disp, mk, dirs>>

(***************************************************************************)
(* mkDirP.  A path is the sequence of its components; the root is <<>>.    *)
(* Each call owns one frame per prefix of its target: the frame of a       *)
(* prefix is the nested mkDirP call for that ancestor.                     *)
(***************************************************************************)

Callers == {1, 2}

Root == <<>>

Targets == {<<"a">>, <<"a", "b">>, <<"a", "c">>}

MaxDepth == 2

\* path.dirname
Dirname(path) ==
    IF Len(path) <= 1 THEN Root ELSE SubSeq(path, 1, Len(path) - 1)

Prefix(path, d) == SubSeq(path, 1, d)

NoFrame == [pc |-> "none", promise |-> "none"]

NoCall == [target |-> Root, called |-> FALSE, frames |-> [d \in 0..MaxDepth |-> NoFrame]]

\* The top-level call mkDirP(path) by caller c: fs.exists is issued.
MkDirPCall(c, path) ==
    /\ running = "mkdirp"
    /\ ~mk[c].called
    /\ mk' = [mk EXCEPT ![c] =
                 [target |-> path, called |-> TRUE,
                  frames |-> [d \in 0..MaxDepth |->
                                 IF d = Len(path)
                                 THEN [pc |-> "existsPending", promise |-> "pending"]
                                 ELSE NoFrame]]]
    /\ UNCHANGED <<platform, running, procs, isAliveCall, killPidCall, cf, rs,
                   files, disp, us, dirs>>

\* The frames after frame d resolved: the `then` callback of the frame
\* above it, if one waits, issues fs.mkdir.
AfterResolve(frames, d) ==
    [e \in 0..MaxDepth |->
        IF e = d THEN [pc |-> "done", promise |-> "resolved"]
        ELSE IF e = d + 1 /\ frames[e].pc = "waitParent"
        THEN [frames[e] EXCEPT !.pc = "mkdirPending"]
        ELSE frames[e]]

\* The frames after frame d rejected: the `catch` callback of every frame
\* that waits above it rejects in turn.
AfterReject(frames, d) ==
    [e \in 0..MaxDepth |->
        IF e = d \/ (e > d /\ frames[e].pc = "waitParent")
        THEN [pc |-> "done", promise |-> "rejected"]
        ELSE frames[e]]

\* The callback of fs.exists for frame d of caller c.
ExistsCallback(c, d) ==
    /\ running = "mkdirp"
    /\ mk[c].frames[d].pc = "existsPending"
    /\ IF Prefix(mk[c].target, d) \in dirs
       THEN mk' = [mk EXCEPT ![c].frames = AfterResolve(mk[c].frames, d)]
       ELSE mk' = [mk EXCEPT
                      ![c].frames[d].pc = "waitParent",
                      ![c].frames[d - 1] =
                          [pc |-> "existsPending", promise |-> "pending"]]
    /\ UNCHANGED <<platform, running, procs, isAliveCall, killPidCall, cf, rs,
                   files, disp, us, dirs>>

\* fs.mkdir for frame d of caller c runs and its callback is called: it
\* fails when the directory exists by now or its parent does not.
MkdirCallback(c, d) ==
    /\ running = "mkdirp"
    /\ mk[c].frames[d].pc = "mkdirPending"
    /\ LET dirPath == Prefix(mk[c].target, d)
           err     == dirPath \in dirs \/ Dirname(dirPath) \notin dirs
       IN  IF err
           THEN /\ mk' = [mk EXCEPT ![c].frames = AfterReject(mk[c].frames, d)]
                /\ UNCHANGED dirs
           ELSE /\ mk' = [mk EXCEPT ![c].frames = AfterResolve(mk[c].frames, d)]
                /\ dirs' = dirs \cup {dirPath}
    /\ UNCHANGED <<platform, running, procs, isAliveCall, killPidCall, cf, rs,
                   files, disp, us>>

(***************************************************************************)
(* The specification.                                                      *)
(***************************************************************************)

Init ==
    /\ platform \in Platforms
    /\ running \in Utilities
    /\ procs \in (IF running = "proc" THEN SUBSET Pids ELSE {{}})
    /\ isAliveCall = IsAliveIdle
    /\ killPidCall = KillPidIdle
    /\ cf = CountIdle
    /\ rs = RunScriptIdle
    /\ files \in (IF running = "script"
                  THEN {NoFiles, [NoFiles EXCEPT !.wd = TRUE]}
                  ELSE {NoFiles})
    /\ disp = DispatcherIdle
    /\ us = UniqueIdle
    /\ mk = [c \in Callers |-> NoCall]
    /\ dirs \in (IF running = "mkdirp"
                 THEN {{Root}, {Root, <<"a">>}}
                 ELSE {{Root}})

Next ==
    \/ \E pid \in Pids : IsAliveStart(pid)
    \/ IsAliveExecSettle
    \/ \E pid \in Pids : KillPidStart(pid)
    \/ KillPidExecSettle
    \/ \E pid \in Pids : ProcExit(pid)
    \/ \E exists \in BOOLEAN, n \in 0..MaxFiles, outcome \in CmdOutcomes :
          CountStart(exists, n, outcome)
    \/ CountExecOk
    \/ CountExecFail
    \/ CountTimerFire
    \/ \E variables \in VariableLists : RunScriptStart(variables)
    \/ \E ok \in BOOLEAN : RunScriptMkdirWd(ok)
    \/ \E ok \in BOOLEAN : RunScriptMkdirNni(ok)
    \/ \E ok \in BOOLEAN : RunScriptTouchMetrics(ok)
    \/ \E ok \in BOOLEAN : RunScriptWriteFile(ok)
    \/ \E exit \in 0..MaxExit, now \in 1..MaxSeconds : ChildRun(exit, now)
    \/ \E tuner \in TunerInputs, assessor \in AssessorInputs,
          advisor \in AdvisorInputs, multiPhase \in BOOLEAN,
          multiThread \in BOOLEAN :
          DispatcherCall(tuner, assessor, advisor, multiPhase, multiThread)
    \/ \E len \in 0..MaxLen : UniqueString(len)
    \/ \E c \in Callers, path \in Targets : MkDirPCall(c, path)
    \/ \E c \in Callers, d \in 0..MaxDepth : ExistsCallback(c, d)
    \/ \E c \in Callers, d \in 0..MaxDepth : MkdirCallback(c, d)

Spec == Init /\ [][Next]_vars

\* The event loop runs a timer callback that is due: the deadline timer,
\* once armed and not cleared, fires.  No fairness is assumed of the
\* external command, which may never finish.
FairSpec == Spec /\ WF_vars(CountTimerFire)

(***************************************************************************)
(* Properties.                                                             *)
(***************************************************************************)

Settled(promise) == promise \in {"resolved", "rejected"}

\* C1: once the external `kill <pid>` command has settled and killPid has
\* run to its end, the promise killPid returned is resolved, so a caller
\* awaiting it proceeds.
KillPidCompletes ==
    killPidCall.pc = "returned" => killPidCall.promise = "resolved"

\* C2: every call of countFilesRecursively on an existing directory
\* settles: once the race is open, the returned promise is eventually
\* resolved or rejected, whether the command finishes early, late, fails
\* or never finishes.
CountAlwaysSettles == (cf.result = "pending") ~> Settled(cf.result)

\* The command never finishes and the call ended with the Timeout error.
CountTimedOutOnHang ==
    /\ cf.outcome = "hang"
    /\ cf.cmd = "running"
    /\ cf.result = "rejected"
    /\ cf.error = "Timeout"

\* C3: once the promise of countFilesRecursively has settled, the loser of
\* the race is cleaned up: no deadline timer is pending and no external
\* command is still running.
RaceLoserCleanedUp ==
    Settled(cf.result) => (cf.timer # "pending" /\ cf.cmd # "running")

Scaffolding == <<"mkdirWd", "mkdirNni", "touchMetrics">>

\* C4: runScript writes the script only after the working directory, its
\* .nni directory and the metrics file were each created, in that order;
\* it resolves, with the invocation command, only after the script was
\* written with owner-execute permission, so a child started after that
\* finds all of them; when a scaffolding step fails the script is not
\* written and no command is returned.
LaunchOrder ==
    /\ rs.wrote =>
          /\ Len(rs.done) >= 3
          /\ SubSeq(rs.done, 1, 3) = Scaffolding
          /\ files.wd /\ files.nni /\ files.metrics
    /\ rs.promise = "resolved" =>
          /\ rs.wrote
          /\ rs.done = Scaffolding \o <<"writeFile">>
          /\ files.script # "none"
          /\ OwnerExecutable(files.scriptMode)
          /\ rs.value = <<IF platform = "win32" THEN "powershell" ELSE "bash",
                          files.script>>
    /\ rs.child # "none" =>
          /\ files.wd /\ files.nni /\ files.metrics
          /\ files.script # "none"
    /\ (rs.promise = "rejected" /\ rs.failed # "writeFile") =>
          /\ ~rs.wrote
          /\ files.script = "none"
          /\ rs.value = <<>>

\* runScript resolved and the child ran the script.
ScriptLaunched ==
    /\ rs.promise = "resolved"
    /\ rs.wrote
    /\ rs.child = "exited"

\* C5: on both platforms the script, once it ran the user command, has
\* written the state file exactly once, as the command's exit status
\* followed by the completion time in epoch milliseconds.
StateFileRecordsExitStatus ==
    rs.child = "exited" =>
        /\ files.stateWrites = 1
        /\ files.state = <<rs.exitStatus, rs.exitSecond * 1000>>

GroupFlags(group) ==
    {Flag("--" \o group \o "_class_name"), Flag("--" \o group \o "_args"),
     Flag("--" \o group \o "_directory"), Flag("--" \o group \o "_class_filename")}

HasFlagOf(command, group) ==
    \E i \in 1..Len(command) : command[i] \in GroupFlags(group)

\* C6: getMsgDispatcherCommand throws, building no command, exactly when
\* (tuner or assessor is given and advisor is given) or (neither tuner nor
\* advisor is given); otherwise the command holds the flags of one group
\* only: --advisor_* when advisor is given, --tuner_* (with --assessor_*
\* at most) when tuner is given.
DispatcherValidation ==
    disp.pc # "idle" =>
        LET t == disp.tuner.defined
            a == disp.assessor.defined
            v == disp.advisor.defined
        IN  /\ (disp.pc = "thrown") <=> (((t \/ a) /\ v) \/ (~t /\ ~v))
            /\ disp.pc = "thrown" => (disp.command = <<>> /\ disp.error # "none")
            /\ disp.pc = "returned" =>
                  /\ disp.error = "none"
                  /\ HasFlagOf(disp.command, "advisor") <=> v
                  /\ HasFlagOf(disp.command, "tuner") <=> t
                  /\ HasFlagOf(disp.command, "assessor") => t
                  /\ ~(HasFlagOf(disp.command, "advisor")
                       /\ (HasFlagOf(disp.command, "tuner")
                           \/ HasFlagOf(disp.command, "assessor")))

\* A command was built for a tuner with an assessor.
DispatcherTunerAssessorCommand ==
    /\ disp.pc = "returned"
    /\ disp.tuner.defined
    /\ disp.assessor.defined
    /\ HasFlagOf(disp.command, "assessor")

\* C7: process absence is no error: isAlive never throws or rejects, it
\* resolves with whether the probe reported the process present, which is
\* false for a pid that named no process when probed; killPid never
\* rejects.
ProcessAbsenceNotError ==
    /\ isAliveCall.promise # "rejected"
    /\ killPidCall.promise # "rejected"
    /\ isAliveCall.pc = "done" =>
          /\ isAliveCall.promise = "resolved"
          /\ isAliveCall.value = (isAliveCall.probed = "present")
          /\ ~isAliveCall.existed => isAliveCall.value = FALSE

\* isAlive resolved for a pid that named no process, and the kill command
\* of killPid failed on such a pid.
AbsentPidProbedAndKilled ==
    /\ isAliveCall.promise = "resolved"
    /\ ~isAliveCall.existed
    /\ killPidCall.pc = "returned"
    /\ killPidCall.execResult = "failed"

\* C8: when the enumeration command wins the race and reports n regular
\* files, countFilesRecursively resolves with n, for every n >= 0.
CountIsExact ==
    cf.result = "resolved" => cf.value = cf.nFiles

Letters == (65..90) \cup (97..122)

Alphanumerics == Letters \cup (48..57)

TopPromise(c) == mk[c].frames[Len(mk[c].target)].promise

\* C10: concurrent mkDirP calls never reject, and once a call has resolved
\* its directory and all its ancestors exist.
MkDirPBothResolve ==
    \A c \in Callers :
        mk[c].called =>
            /\ TopPromise(c) # "rejected"
            /\ TopPromise(c) = "resolved" =>
                  \A d \in 0..Len(mk[c].target) : Prefix(mk[c].target, d) \in dirs

====
